---- MODULE Spec2Model ----
(***************************************************************************)
(* State-machine model of the identity-verification wizard (App component  *)
(* of src/index.tsx; src/unnamed/part_000 is a second revision of the same *)
(* component with identical control flow).                                 *)
(*                                                                         *)
(* The React state (useState cells), the video element's srcObject, the    *)
(* pending getUserMedia requests, the camera streams whose tracks are      *)
(* still live and the verification calls in flight are the variables.      *)
(* One action per event handler or promise continuation.  A handler, the   *)
(* commit of its batched state updates and the effects of that commit      *)
(* (cleanup of the previous [step] effect, then the new [step] effect) run *)
(* without interleaving of another event, so they form one action.         *)
(*                                                                         *)
(* Taken from the platform: the root is made with createRoot, so the state *)
(* updates of one handler or continuation are committed as one batch; a    *)
(* ref to an unmounted element is null by the time effect cleanups run;    *)
(* the verification client is constructed with a configured credential     *)
(* and its constructor does not throw.                                     *)
(***************************************************************************)
EXTENDS Integers, FiniteSets, Sequences, TLC

\* ------------------------------------------------------------------ bounds
\* camera streams that are pending or have live tracks at the same time
MaxStreams == 2
\* verification calls that can be in flight at the same time
MaxCalls == 2

\* ------------------------------------------------------------------ types
AppStep == {"welcome", "capture_id", "review_id", "capture_selfie",
            "review_selfie", "processing", "result"}
CaptureSteps == {"capture_id", "capture_selfie"}
ReviewSteps == {"review_id", "review_selfie"}
FacingModes == {"user", "environment"}

\* string | null state cells hold Null when null
Null == "null"
CameraErrorMsg == "Could not access camera. Please ensure permissions are granted."
VerifyErrorMsg == "The verification engine encountered an error. Please try again."

\* srcObject of the video element: a stream id, or NoStream for null
NoStream == 0

\* ---- JavaScript values (the parsed response and its properties)
JSUndefined == [t |-> "undefined", b |-> FALSE, n |-> 0, s |-> ""]
JSBool(x) == [t |-> "boolean", b |-> x, n |-> 0, s |-> ""]
JSNum(x) == [t |-> "number", b |-> FALSE, n |-> x, s |-> ""]
JSStr(x) == [t |-> "string", b |-> FALSE, n |-> 0, s |-> x]

\* ToBoolean of a primitive
Truthy(v) ==
  CASE v.t = "boolean" -> v.b
    [] v.t = "number" -> v.n # 0
    [] v.t = "string" -> v.s # ""
    [] OTHER -> FALSE

\* VerificationResult | null.  A property the object lacks reads as undefined.
JSObject(m, c, r) == [t |-> "object", isMatch |-> m, confidence |-> c, reasoning |-> r]
NoResult == [t |-> "null", isMatch |-> JSUndefined, confidence |-> JSUndefined,
             reasoning |-> JSUndefined]
EmptyObject == JSObject(JSUndefined, JSUndefined, JSUndefined)

\* ---- captured stills (data URLs).  toDataURL of a canvas without pixels is
\* the constant "data:,"; otherwise the JPEG of the frame that was drawn,
\* described by the lens that produced it and by whether the canvas was
\* flipped before drawing.
NoImage == [kind |-> "null", mirrored |-> FALSE, facing |-> "none"]
BlankImage == [kind |-> "blank", mirrored |-> FALSE, facing |-> "none"]
FrameImage(m, f) == [kind |-> "frame", mirrored |-> m, facing |-> f]

\* !image of the guard in runVerification: null and "" are falsy, every data URL is truthy
ImageTruthy(img) == img.kind # "null"

VARIABLES
  step,               \* useState<AppStep>
  idImage,            \* useState<string | null>
  selfieImage,        \* useState<string | null>
  result,             \* useState<VerificationResult | null>
  error,              \* useState<string | null>
  facingMode,         \* useState<'user' | 'environment'>
  hasMultipleCameras, \* useState(false)
  srcObject,          \* videoRef.current.srcObject of the mounted video element
  bound,              \* the stream srcObject holds: requested mode and actual lens
  cameraCheck,        \* enumerateDevices(): pending, failed, or resolved with count devices
  requests,           \* getUserMedia promises not yet settled
  live,               \* streams obtained whose tracks have not been stopped
  latest,             \* the request made by the most recent startCamera call
  calls,              \* generateContent promises not yet settled
  lastAction,         \* history: the handler or continuation that ran last
  issuedByLast,       \* history: generateContent calls that handler made
  lastResponse,       \* history: what the verification call of this run delivered
  superseded,         \* history: requests and streams that were pending at a flip
  idShot,             \* history: still of the last shutter press in capture_id of this run
  selfieShot          \* history: still of the last shutter press in capture_selfie of this run

vars == <<step, idImage, selfieImage, result, error, facingMode, hasMultipleCameras,
          srcObject, bound, cameraCheck, requests, live, latest, calls,
          lastAction, issuedByLast, lastResponse, superseded, idShot, selfieShot>>

VideoMounted(s) == s \in CaptureSteps

\* canvas.toDataURL after drawImage(video): without a bound stream videoWidth
\* and videoHeight are 0, nothing is drawn and the data URL is "data:,".
\* The canvas is flipped when facingMode === 'user'.
CapturedStill ==
  IF srcObject = NoStream
    THEN BlankImage
    ELSE FrameImage(facingMode = "user", bound.facing)

\* ---- history bookkeeping of an action
NoResponse == [how |-> "none", defined |-> FALSE, chars |-> ""]
History(name) ==
  /\ lastAction' = name
  /\ issuedByLast' = Cardinality(calls' \ calls)
  /\ superseded' =
       ((superseded \cup (IF name = "flipCamera" THEN {r.id : r \in requests} ELSE {}))
          \ {r.id : r \in {q \in requests' \ requests : q.attempt = "ideal"}})
       \cap ({r.id : r \in requests'} \cup live')
  /\ idShot' =
       IF name \in {"cancel", "restart"} THEN NoImage
       ELSE IF name = "captureImage" /\ step = "capture_id" THEN CapturedStill
       ELSE idShot
  /\ selfieShot' =
       IF name \in {"cancel", "restart"} THEN NoImage
       ELSE IF name = "captureImage" /\ step = "capture_selfie" THEN CapturedStill
       ELSE selfieShot

NoBound == [mode |-> "none", facing |-> "none"]

\* numbers of videoinput devices enumerateDevices() may report
DeviceCounts == 0..2

TypeOK ==
  /\ step \in AppStep
  /\ idImage.kind \in {"null", "blank", "frame"}
  /\ selfieImage.kind \in {"null", "blank", "frame"}
  /\ result.t \in {"null", "object"}
  /\ error \in {Null, CameraErrorMsg, VerifyErrorMsg}
  /\ facingMode \in FacingModes
  /\ hasMultipleCameras \in BOOLEAN
  /\ srcObject \in 0..MaxStreams
  /\ bound.mode \in FacingModes \cup {"none"}
  /\ cameraCheck.state \in {"pending", "failed", "resolved"}
  /\ cameraCheck.count \in DeviceCounts
  /\ \A r \in requests : r.id \in 1..MaxStreams /\ r.mode \in FacingModes
                         /\ r.attempt \in {"ideal", "fallback"}
  /\ live \subseteq 1..MaxStreams
  /\ latest \in 0..MaxStreams
  /\ \A c \in calls : c.id \in 1..MaxCalls
  /\ issuedByLast \in 0..MaxCalls
  /\ superseded \subseteq 1..MaxStreams
  /\ idShot.kind \in {"null", "blank", "frame"}
  /\ selfieShot.kind \in {"null", "blank", "frame"}

Init ==
  /\ step = "welcome"
  /\ idImage = NoImage
  /\ selfieImage = NoImage
  /\ result = NoResult
  /\ error = Null
  /\ facingMode = "environment"
  /\ hasMultipleCameras = FALSE
  /\ srcObject = NoStream
  /\ bound = NoBound
  /\ cameraCheck = [state |-> "pending", count |-> 0]
  /\ requests = {}
  /\ live = {}
  /\ latest = 0
  /\ calls = {}
  /\ lastAction = "init"
  /\ issuedByLast = 0
  /\ lastResponse = NoResponse
  /\ superseded = {}
  /\ idShot = NoImage
  /\ selfieShot = NoImage

\* ------------------------------------------------------- device enumeration
\* a plausible slip: any camera at all counted as several
MoreThanOne_AtLeastOne(n) == n >= 1

\* videoDevices.length > 1
MoreThanOne(n) == n > 1

\* checkCameras, try branch: setHasMultipleCameras(videoDevices.length > 1)
CheckCamerasResolve(n) ==
  /\ cameraCheck.state = "pending"
  /\ cameraCheck' = [state |-> "resolved", count |-> n]
  /\ hasMultipleCameras' = MoreThanOne(n)
  /\ UNCHANGED <<step, idImage, selfieImage, result, error, facingMode, srcObject,
                 bound, requests, live, latest, calls>>
  /\ UNCHANGED lastResponse
  /\ History("checkCameras")

\* checkCameras, catch branch: only logs
CheckCamerasReject ==
  /\ cameraCheck.state = "pending"
  /\ cameraCheck' = [state |-> "failed", count |-> 0]
  /\ UNCHANGED <<step, idImage, selfieImage, result, error, facingMode,
                 hasMultipleCameras, srcObject, bound, requests, live, latest, calls>>
  /\ UNCHANGED lastResponse
  /\ History("checkCamerasFailed")

\* ------------------------------------------------------------ camera unit
\* a plausible slip: the tracks stopped but the element left bound
stopCamera_KeepsBinding(mounted, src, bnd, lv) ==
  IF mounted /\ src # NoStream
    THEN [srcObject |-> src, bound |-> bnd, live |-> lv \ {src}]
    ELSE [srcObject |-> src, bound |-> bnd, live |-> lv]

\* stopCamera on a video ref that is attached (mounted) or null, whose element
\* has srcObject src (described by bnd), with lv the streams whose tracks are
\* live: the bound stream's tracks are stopped and the element is unbound;
\* nothing otherwise.
stopCamera(mounted, src, bnd, lv) ==
  IF mounted /\ src # NoStream
    THEN [srcObject |-> NoStream, bound |-> NoBound, live |-> lv \ {src}]
    ELSE [srcObject |-> src, bound |-> bnd, live |-> lv]

\* stream identities not in use, given the live streams lv
FreeIds(lv) == (1..MaxStreams) \ ({r.id : r \in requests} \cup lv)
MinOf(S) == CHOOSE x \in S : \A y \in S : x <= y

\* startCamera(mode) up to its first await: stopCamera(), then
\* getUserMedia({video: {facingMode: {ideal: mode}, ...}}) is pending.
startCamera(mode, mounted, src, bnd, lv) ==
  LET s == stopCamera(mounted, src, bnd, lv) IN
  /\ FreeIds(s.live) # {}
  /\ srcObject' = s.srcObject
  /\ bound' = s.bound
  /\ live' = s.live
  /\ latest' = MinOf(FreeIds(s.live))
  /\ requests' = requests \cup
       {[id |-> MinOf(FreeIds(s.live)), mode |-> mode, attempt |-> "ideal"]}

\* The video element is rendered only in the capture steps; an element that
\* is mounted by a commit is a new one, with srcObject null.
ElementKept(old, new) == VideoMounted(old) /\ VideoMounted(new)

\* a plausible slip: the effect starts the camera with the facing mode in
\* state instead of the one the step calls for
StepEffect_KeepsFacing(old, new, src, bnd, lv) ==
  LET mounted == VideoMounted(new)
      c == stopCamera(mounted,
                      IF ElementKept(old, new) THEN src ELSE NoStream,
                      IF ElementKept(old, new) THEN bnd ELSE NoBound, lv)
  IN  IF new \in CaptureSteps
        THEN /\ UNCHANGED facingMode
             /\ startCamera(facingMode, mounted, c.srcObject, c.bound, c.live)
        ELSE /\ srcObject' = c.srcObject
             /\ bound' = c.bound
             /\ live' = c.live
             /\ UNCHANGED <<facingMode, requests, latest>>

\* Commit of a step change old -> new and the [step] effect: the ref is
\* detached (or attached to the new element) during the commit, then the
\* previous effect's cleanup () => stopCamera() runs, then the effect body.
\* src, bnd, lv are what the handler left behind.
StepEffect(old, new, src, bnd, lv) ==
  LET mounted == VideoMounted(new)
      c == stopCamera(mounted,
                      IF ElementKept(old, new) THEN src ELSE NoStream,
                      IF ElementKept(old, new) THEN bnd ELSE NoBound, lv)
  IN  IF new = "capture_id"
        THEN /\ facingMode' = "environment"
             /\ startCamera("environment", mounted, c.srcObject, c.bound, c.live)
        ELSE IF new = "capture_selfie"
          THEN /\ facingMode' = "user"
               /\ startCamera("user", mounted, c.srcObject, c.bound, c.live)
          ELSE /\ srcObject' = c.srcObject
               /\ bound' = c.bound
               /\ live' = c.live
               /\ UNCHANGED <<facingMode, requests, latest>>

\* getUserMedia resolves with a stream of lens f (the constraint is "ideal",
\* the fallback unconstrained, so either lens may be delivered); the stream is
\* bound to whatever video element the ref holds now, if any.
GumResolve(r, f) ==
  /\ r \in requests
  /\ requests' = requests \ {r}
  /\ live' = live \cup {r.id}
  /\ IF VideoMounted(step)
       THEN srcObject' = r.id /\ bound' = [mode |-> r.mode, facing |-> f]
       ELSE UNCHANGED <<srcObject, bound>>
  /\ UNCHANGED <<step, idImage, selfieImage, result, error, facingMode,
                 hasMultipleCameras, cameraCheck, latest, calls>>
  /\ UNCHANGED lastResponse
  /\ History("getUserMediaResolved")

\* the constrained request rejects: catch, getUserMedia({video: true}) is pending
GumIdealReject(r) ==
  /\ r \in requests
  /\ r.attempt = "ideal"
  /\ requests' = (requests \ {r}) \cup {[r EXCEPT !.attempt = "fallback"]}
  /\ UNCHANGED <<step, idImage, selfieImage, result, error, facingMode,
                 hasMultipleCameras, srcObject, bound, cameraCheck, live, latest, calls>>
  /\ UNCHANGED lastResponse
  /\ History("getUserMediaFallback")

\* the fallback request rejects too: setError(...)
GumFallbackReject(r) ==
  /\ r \in requests
  /\ r.attempt = "fallback"
  /\ requests' = requests \ {r}
  /\ error' = CameraErrorMsg
  /\ UNCHANGED <<step, idImage, selfieImage, result, facingMode,
                 hasMultipleCameras, srcObject, bound, cameraCheck, live, latest, calls>>
  /\ UNCHANGED lastResponse
  /\ History("getUserMediaFailed")

\* the flip button is rendered in the capture steps when hasMultipleCameras
FlipEnabled == VideoMounted(step) /\ hasMultipleCameras

flipCamera ==
  /\ FlipEnabled
  /\ LET newMode == IF facingMode = "user" THEN "environment" ELSE "user" IN
       /\ facingMode' = newMode
       /\ startCamera(newMode, VideoMounted(step), srcObject, bound, live)
  /\ UNCHANGED <<step, idImage, selfieImage, result, error, hasMultipleCameras,
                 cameraCheck, calls>>
  /\ UNCHANGED lastResponse
  /\ History("flipCamera")

\* the shutter button is rendered in the capture steps
ShutterEnabled == VideoMounted(step)

\* a plausible slip: the still stored in the cell of the other role
StoreStill_WrongCell(dataUrl) ==
  IF step = "capture_id"
    THEN selfieImage' = dataUrl /\ step' = "review_id" /\ UNCHANGED idImage
    ELSE idImage' = dataUrl /\ step' = "review_selfie" /\ UNCHANGED selfieImage

\* a plausible slip: storing a still discards the still of the other role
StoreStill_DropsOther(dataUrl) ==
  IF step = "capture_id"
    THEN idImage' = dataUrl /\ step' = "review_id" /\ selfieImage' = NoImage
    ELSE selfieImage' = dataUrl /\ step' = "review_selfie" /\ idImage' = NoImage

\* if (step === 'capture_id') { setIdImage; setStep('review_id') }
\* else { setSelfieImage; setStep('review_selfie') }
StoreStill(dataUrl) ==
  IF step = "capture_id"
    THEN idImage' = dataUrl /\ step' = "review_id" /\ UNCHANGED selfieImage
    ELSE selfieImage' = dataUrl /\ step' = "review_selfie" /\ UNCHANGED idImage

captureImage ==
  /\ ShutterEnabled
  /\ LET s == stopCamera(VideoMounted(step), srcObject, bound, live) IN
       /\ StoreStill(CapturedStill)
       /\ StepEffect(step, IF step = "capture_id" THEN "review_id" ELSE "review_selfie",
                     s.srcObject, s.bound, s.live)
  /\ UNCHANGED <<result, error, hasMultipleCameras, cameraCheck, calls>>
  /\ UNCHANGED lastResponse
  /\ History("captureImage")

\* ------------------------------------------------------------ review steps
\* the retake and confirm buttons are rendered in the review steps
ReviewEnabled == step \in ReviewSteps

\* a plausible slip: the branches of the ternary exchanged
RetakeTarget_Swapped(s) == IF s = "review_id" THEN "capture_selfie" ELSE "capture_id"

\* step === 'review_id' ? 'capture_id' : 'capture_selfie'
RetakeTarget(s) == IF s = "review_id" THEN "capture_id" ELSE "capture_selfie"

\* a plausible slip: the retake implemented as a discard of every still
Retake_ClearsImages ==
  /\ ReviewEnabled
  /\ LET new == RetakeTarget(step) IN
       /\ step' = new
       /\ StepEffect(step, new, srcObject, bound, live)
  /\ idImage' = NoImage
  /\ selfieImage' = NoImage
  /\ UNCHANGED <<result, error, hasMultipleCameras, cameraCheck, calls>>
  /\ UNCHANGED lastResponse
  /\ History("retake")

\* Retake button: setStep(RetakeTarget(step))
Retake ==
  /\ ReviewEnabled
  /\ LET new == RetakeTarget(step) IN
       /\ step' = new
       /\ StepEffect(step, new, srcObject, bound, live)
  /\ UNCHANGED <<idImage, selfieImage, result, error, hasMultipleCameras,
                 cameraCheck, calls>>
  /\ UNCHANGED lastResponse
  /\ History("retake")

\* a plausible slip: the branches of the confirm button's ternary exchanged,
\* so that review_id runs the verification routine, which returns at its
\* guard because no selfie exists yet
ConfirmId_Inverted ==
  /\ step = "review_id"
  /\ ~(ImageTruthy(idImage) /\ ImageTruthy(selfieImage))
  /\ UNCHANGED <<step, idImage, selfieImage, result, error, facingMode,
                 hasMultipleCameras, srcObject, bound, cameraCheck, requests, live,
                 latest, calls, lastResponse>>
  /\ History("confirmId")

\* Continue button in review_id: setStep('capture_selfie')
ConfirmId ==
  /\ step = "review_id"
  /\ step' = "capture_selfie"
  /\ StepEffect(step, "capture_selfie", srcObject, bound, live)
  /\ UNCHANGED <<idImage, selfieImage, result, error, hasMultipleCameras,
                 cameraCheck, calls>>
  /\ UNCHANGED lastResponse
  /\ History("confirmId")

\* ------------------------------------------------------ verification call
FreeCallIds == (1..MaxCalls) \ {c.id : c \in calls}

\* a plausible slip: the request sent a second time (a retry that does not
\* wait for the first attempt)
generateContent_Twice(idData, selfieData) ==
  calls' = calls \cup {[id |-> i, idData |-> idData, selfieData |-> selfieData] :
                        i \in FreeCallIds}

\* a plausible slip: the two inline-data parts in the other order
generateContent_Swapped(idData, selfieData) ==
  calls' = calls \cup {[id |-> MinOf(FreeCallIds), idData |-> selfieData,
                        selfieData |-> idData]}

\* ai.models.generateContent(...) is pending, with the base64 parts of the
\* two data URLs as inline data
generateContent(idData, selfieData) ==
  calls' = calls \cup {[id |-> MinOf(FreeCallIds), idData |-> idData,
                        selfieData |-> selfieData]}

\* Continue button in review_selfie: runVerification() up to its first await.
\* The client is constructed with the configured credential.
runVerification ==
  /\ step = "review_selfie"
  /\ FreeCallIds # {}
  /\ IF ~ImageTruthy(idImage) \/ ~ImageTruthy(selfieImage)
       THEN UNCHANGED <<step, error, calls, srcObject, bound, live, facingMode,
                        requests, latest>>
       ELSE /\ step' = "processing"
            /\ error' = Null
            /\ generateContent(idImage, selfieImage)
            /\ StepEffect(step, "processing", srcObject, bound, live)
  /\ UNCHANGED <<idImage, selfieImage, result, hasMultipleCameras, cameraCheck,
                 lastResponse>>
  /\ History("runVerification")

\* response.text of a resolved call: undefined, or a string
TextUndefined == [how |-> "resolved", defined |-> FALSE, chars |-> ""]
Text(str) == [how |-> "resolved", defined |-> TRUE, chars |-> str]
Rejection(why) == [how |-> "rejected", defined |-> FALSE, chars |-> why]

PassBody == "{\"isMatch\":true,\"confidence\":0.94,\"reasoning\":\"faces match\"}"
FailBody == "{\"isMatch\":false,\"confidence\":0.12,\"reasoning\":\"faces differ\"}"
PartialBody == "{\"isMatch\":true}"
ProseBody == "I cannot compare these images."

\* the response texts the service is taken to deliver
ResponseTexts ==
  {TextUndefined, Text(""), Text(ProseBody), Text("{}"), Text("null"),
   Text(PartialBody), Text(PassBody), Text(FailBody)}

\* the ways the awaited call rejects
RejectReasons == {"network", "service"}

\* response.text || '{}'
TextOrEmptyObject(text) ==
  IF ~text.defined \/ text.chars = "" THEN "{}" ELSE text.chars

\* JSON.parse on the texts above (numbers in hundredths); throws: ok = FALSE
JSONParse(str) ==
  CASE str = "{}" -> [ok |-> TRUE, value |-> EmptyObject]
    [] str = "null" -> [ok |-> TRUE, value |-> NoResult]
    [] str = PartialBody ->
         [ok |-> TRUE, value |-> JSObject(JSBool(TRUE), JSUndefined, JSUndefined)]
    [] str = PassBody ->
         [ok |-> TRUE, value |-> JSObject(JSBool(TRUE), JSNum(94), JSStr("faces match"))]
    [] str = FailBody ->
         [ok |-> TRUE, value |-> JSObject(JSBool(FALSE), JSNum(12), JSStr("faces differ"))]
    [] OTHER -> [ok |-> FALSE, value |-> NoResult]

\* plausible slips: the catch branch without setError, without setStep
VerificationCatch_NoError ==
  /\ step' = "result"
  /\ UNCHANGED <<error, result>>

VerificationCatch_NoStep ==
  /\ error' = VerifyErrorMsg
  /\ UNCHANGED <<step, result>>

\* catch (err) of runVerification
VerificationCatch ==
  /\ error' = VerifyErrorMsg
  /\ step' = "result"
  /\ UNCHANGED result

\* try branch of runVerification after the awaited call resolved
VerificationParsed(data) ==
  /\ result' = data
  /\ step' = "result"
  /\ UNCHANGED error

\* continuation of runVerification after the awaited call resolved with text
VerifyResolve(c, text) ==
  /\ c \in calls
  /\ calls' = calls \ {c}
  /\ LET data == JSONParse(TextOrEmptyObject(text)) IN
       IF data.ok THEN VerificationParsed(data.value) ELSE VerificationCatch
  /\ StepEffect(step, "result", srcObject, bound, live)
  /\ UNCHANGED <<idImage, selfieImage, hasMultipleCameras, cameraCheck>>
  /\ lastResponse' = text
  /\ History("verifyResolved")

\* continuation of runVerification after the awaited call rejected
VerifyReject(c, why) ==
  /\ c \in calls
  /\ calls' = calls \ {c}
  /\ VerificationCatch
  /\ StepEffect(step, "result", srcObject, bound, live)
  /\ UNCHANGED <<idImage, selfieImage, hasMultipleCameras, cameraCheck>>
  /\ lastResponse' = Rejection(why)
  /\ History("verifyRejected")

\* ------------------------------------------------------------------ reset
\* a plausible slip: the error left in place
reset_KeepsError ==
  /\ idImage' = NoImage
  /\ selfieImage' = NoImage
  /\ result' = NoResult
  /\ step' = "welcome"
  /\ StepEffect(step, "welcome", srcObject, bound, live)
  /\ lastResponse' = NoResponse
  /\ UNCHANGED <<error, hasMultipleCameras, cameraCheck, calls>>

reset ==
  /\ idImage' = NoImage
  /\ selfieImage' = NoImage
  /\ result' = NoResult
  /\ error' = Null
  /\ step' = "welcome"
  /\ StepEffect(step, "welcome", srcObject, bound, live)
  /\ lastResponse' = NoResponse
  /\ UNCHANGED <<hasMultipleCameras, cameraCheck, calls>>

\* a plausible slip: processing left out of the guard
CancelEnabled_InProcessing == step # "welcome" /\ step # "result"

\* the Cancel button of the header
CancelEnabled == step # "welcome" /\ step # "processing" /\ step # "result"

\* the New Verification button of the result view
RestartEnabled == step = "result"

Cancel == CancelEnabled /\ reset /\ History("cancel")

Restart == RestartEnabled /\ reset /\ History("restart")

\* Start Verification button of the welcome view: setStep('capture_id')
StartEnabled == step = "welcome"

Start ==
  /\ StartEnabled
  /\ step' = "capture_id"
  /\ StepEffect(step, "capture_id", srcObject, bound, live)
  /\ UNCHANGED <<idImage, selfieImage, result, error, hasMultipleCameras,
                 cameraCheck, calls>>
  /\ UNCHANGED lastResponse
  /\ History("start")

\* ---------------------------------------------------------- result view
\* heading: error ? 'System Error'
\*                : (result?.isMatch ? 'Verification Passed' : 'Verification Failed')
Heading ==
  IF error # Null THEN "System Error"
  ELSE IF Truthy(result.isMatch) THEN "Verification Passed"
  ELSE "Verification Failed"

\* the emerald border and check icon are chosen by result?.isMatch alone
PassIconShown == Truthy(result.isMatch)

\* quoted text: error || result?.reasoning
QuotedText == IF error # Null THEN JSStr(error) ELSE result.reasoning

\* -------------------------------------------------------------- behaviours
VerifyComplete ==
  \/ \E c \in calls, text \in ResponseTexts : VerifyResolve(c, text)
  \/ \E c \in calls, why \in RejectReasons : VerifyReject(c, why)

Next ==
  \/ \E n \in DeviceCounts : CheckCamerasResolve(n)
  \/ CheckCamerasReject
  \/ Start
  \/ captureImage
  \/ Retake
  \/ ConfirmId
  \/ runVerification
  \/ \E c \in calls, text \in ResponseTexts : VerifyResolve(c, text)
  \/ \E c \in calls, why \in RejectReasons : VerifyReject(c, why)
  \/ flipCamera
  \/ \E r \in requests, f \in FacingModes : GumResolve(r, f)
  \/ \E r \in requests : GumIdealReject(r)
  \/ \E r \in requests : GumFallbackReject(r)
  \/ Cancel
  \/ Restart

Spec == Init /\ [][Next]_vars

\* every issued verification call eventually settles
FairSpec == Spec /\ WF_vars(VerifyComplete)

\* ==================================================================== claims
BothImagesPresent == ImageTruthy(idImage) /\ ImageTruthy(selfieImage)

\* ---- C1
AllowedTransitions ==
  {<<"welcome", "capture_id">>, <<"capture_id", "review_id">>,
   <<"review_id", "capture_id">>, <<"review_id", "capture_selfie">>,
   <<"capture_selfie", "review_selfie">>, <<"review_selfie", "capture_selfie">>,
   <<"review_selfie", "processing">>, <<"processing", "result">>,
   <<"capture_id", "welcome">>, <<"review_id", "welcome">>,
   <<"capture_selfie", "welcome">>, <<"review_selfie", "welcome">>,
   <<"result", "welcome">>}

TransitionBy(from, to) ==
  CASE to = "welcome" -> IF from = "result" THEN {"restart"} ELSE {"cancel"}
    [] to \in ReviewSteps -> {"captureImage"}
    [] to = "processing" -> {"runVerification"}
    [] to = "result" -> {"verifyResolved", "verifyRejected"}
    [] from = "welcome" -> {"start"}
    [] from = "review_id" /\ to = "capture_selfie" -> {"confirmId"}
    [] OTHER -> {"retake"}

\* C1: the workflow starts in welcome and every change of the step is one of
\* the listed transitions, made by the trigger listed for it; processing is
\* left only by the completion of the call and result only by the full reset.
C1_Transitions ==
  /\ step = "welcome"
  /\ [][step' # step =>
          /\ <<step, step'>> \in AllowedTransitions
          /\ lastAction' \in TransitionBy(step, step')
          /\ (step = "result" =>
                /\ idImage' = NoImage /\ selfieImage' = NoImage
                /\ result' = NoResult /\ error' = Null)]_vars

\* a whole run was walked, from welcome through result and back by restart
C1_Witness == lastAction = "restart" /\ step = "welcome"

\* ---- C2
\* C2: a confirm in review_selfie issues exactly one call and moves to
\* processing if and only if both images are present; otherwise it issues
\* none and leaves the step alone.
C2_ConfirmSelfie ==
  [][lastAction' = "runVerification" =>
       /\ step = "review_selfie"
       /\ BothImagesPresent <=> (step' = "processing" /\ issuedByLast' = 1)
       /\ ~BothImagesPresent => (step' = step /\ calls' = calls)
       /\ BothImagesPresent =>
            \E c \in calls' \ calls : c.idData = idImage /\ c.selfieData = selfieImage]_vars

C2_Witness == lastAction = "runVerification" /\ step = "processing"
              /\ issuedByLast = 1 /\ Cardinality(calls) = 1

\* ---- C3
\* C3: at most one call is in flight, only in step processing with both
\* images present; in processing and result no confirm is available, and no
\* handler but the confirm of review_selfie issues a call.
C3_SingleCall ==
  /\ Cardinality(calls) <= 1
  /\ calls # {} => step = "processing" /\ BothImagesPresent
  /\ step \in {"processing", "result"} => ~ENABLED runVerification
  /\ issuedByLast > 0 => lastAction = "runVerification"

C3_Witness == Cardinality(calls) = 1 /\ step = "processing" /\ requests # {}

\* ---- C4
WellFormedTexts == {Text(PassBody), Text(FailBody)}
ResponseIsMatch == lastResponse = Text(PassBody)
ResponseOutcome ==
  IF ResponseIsMatch
    THEN JSObject(JSBool(TRUE), JSNum(94), JSStr("faces match"))
    ELSE JSObject(JSBool(FALSE), JSNum(12), JSStr("faces differ"))

\* C4: when the call returns a well-formed response, the step is result, the
\* stored outcome is exactly the response's fields, and the result view shows
\* the pass state exactly when isMatch is true, with the pass or fail heading
\* and the response's reasoning as the quoted text, whatever happened earlier.
C4_SuccessShown ==
  (lastAction = "verifyResolved" /\ lastResponse \in WellFormedTexts) =>
     /\ step = "result"
     /\ result = ResponseOutcome
     /\ PassIconShown <=> ResponseIsMatch
     /\ Heading = (IF ResponseIsMatch THEN "Verification Passed" ELSE "Verification Failed")
     /\ QuotedText = ResponseOutcome.reasoning

\* ---- C5
\* the awaited call rejected, or its text could not be parsed
CallFailed ==
  lastResponse \in {Rejection(why) : why \in RejectReasons} \cup {Text(ProseBody)}

\* C5: after a failed call the step is result, an error message is present,
\* no outcome is stored and no call is in flight; a call is issued only by the
\* confirm of review_selfie, in a run whose call has not yet been made.
C5_FailureShown ==
  /\ CallFailed => /\ step = "result"
                   /\ error # Null
                   /\ result = NoResult
                   /\ calls = {}
  /\ issuedByLast > 0 => lastAction = "runVerification" /\ lastResponse = NoResponse

C5_Witness == step = "result" /\ lastResponse = Rejection("network")
              /\ error = VerifyErrorMsg /\ lastAction = "verifyRejected"

\* ---- C6
MalformedTexts ==
  {TextUndefined, Text(""), Text(ProseBody), Text("{}"), Text("null"), Text(PartialBody)}

\* C6: every failure of the call (a rejection, or a response that is empty,
\* unparsable or lacks the required fields) ends in step result with the
\* fixed generic error message and without a stored outcome.
C6_EveryFailureGeneric ==
  (/\ lastAction \in {"verifyResolved", "verifyRejected"}
   /\ (lastResponse.how = "rejected" \/ lastResponse \in MalformedTexts)) =>
     /\ step = "result"
     /\ error = VerifyErrorMsg
     /\ result = NoResult

\* ---- C7
\* C7: if every issued call eventually settles, processing always leads to result.
C7_ProcessingEnds == (step = "processing") ~> (step = "result")

C7_Witness == step = "result" /\ lastAction = "verifyResolved" /\ result.t = "object"

\* ---- C8
\* C8: cancel is available exactly in the two capture and the two review
\* steps and restart exactly in result; right after either, the step is
\* welcome and both images, the outcome and the error are absent.
C8_Reset ==
  /\ (ENABLED Cancel) <=>
       step \in {"capture_id", "review_id", "capture_selfie", "review_selfie"}
  /\ (ENABLED Restart) <=> step = "result"
  /\ lastAction \in {"cancel", "restart"} =>
       /\ step = "welcome"
       /\ idImage = NoImage /\ selfieImage = NoImage
       /\ result = NoResult /\ error = Null

C8_Witness == lastAction = "cancel" /\ step = "welcome" /\ requests # {}

\* ---- C9
\* C9: the ID image is present in review_id, capture_selfie, review_selfie and
\* processing, the selfie image in review_selfie and processing; so the
\* review view always has its image and a confirm in review_selfie always
\* passes the guard of the verification routine.
C9_ImagesPresent ==
  /\ step \in {"review_id", "capture_selfie", "review_selfie", "processing"} =>
       ImageTruthy(idImage)
  /\ step \in {"review_selfie", "processing"} => ImageTruthy(selfieImage)
  /\ lastAction = "runVerification" => step = "processing" /\ issuedByLast = 1

C9_Witness == step = "processing" /\ idImage.kind = "frame" /\ selfieImage.kind = "frame"

\* ---- C10
\* C10: a review step is entered only by a shutter press made while a stream
\* is bound to the preview; a shutter press without one (acquisition pending
\* or failed) leaves the step alone.
C10_ShutterNeedsStream ==
  [][/\ (step' \in ReviewSteps /\ step' # step) =>
          (lastAction' = "captureImage" /\ srcObject # NoStream)
     /\ (lastAction' = "captureImage" /\ srcObject = NoStream) => step' = step]_vars

\* ---- C11
\* C11: a confirm in review_id moves the step to capture_selfie if and only
\* if an ID image is present; without one it leaves the step alone.
C11_ConfirmId ==
  [][lastAction' = "confirmId" =>
       /\ step = "review_id"
       /\ ImageTruthy(idImage) <=> step' = "capture_selfie"
       /\ ~ImageTruthy(idImage) => step' = step]_vars

C11_Witness == lastAction = "confirmId" /\ step = "capture_selfie"
               /\ ImageTruthy(idImage) /\ requests # {}

\* ---- C12
\* C12: right after a retake from review_id the step is capture_id and the ID
\* image is absent; right after a retake from review_selfie the step is
\* capture_selfie and the selfie image is absent.
C12_RetakeDiscards ==
  lastAction = "retake" =>
    \/ step = "capture_id" /\ idImage = NoImage
    \/ step = "capture_selfie" /\ selfieImage = NoImage

\* ---- C13
\* C13: a retake from review_selfie leaves the ID image as it was, a retake
\* from review_id leaves the selfie image as it was, and neither changes the
\* verification outcome.
C13_RetakeKeepsOther ==
  [][lastAction' = "retake" =>
       /\ step = "review_selfie" => idImage' = idImage
       /\ step = "review_id" => selfieImage' = selfieImage
       /\ result' = result]_vars

C13_Witness == lastAction = "retake" /\ step = "capture_selfie" /\ idImage.kind = "frame"

\* ---- C14
\* the handlers and continuations that request a stream
RequestingActions == {"start", "retake", "confirmId", "flipCamera", "getUserMediaFallback"}

\* C14: at most one stream has live tracks, and whenever a stream is
\* requested every stream obtained earlier has had its tracks stopped.
C14_ExclusiveStream ==
  /\ Cardinality(live) <= 1
  /\ lastAction \in RequestingActions => live = {}

\* ---- C15
\* C15: outside the capture steps no stream has live tracks.
C15_ReleasedOutsideCapture == ~VideoMounted(step) => live = {}

\* ---- C16
\* C16: the flip control is enabled exactly in a capture step after the
\* startup enumeration reported more than one video input; never after a
\* failed enumeration or one that reported zero or one device.
C16_FlipOffered ==
  /\ FlipEnabled <=> /\ VideoMounted(step)
                     /\ cameraCheck.state = "resolved"
                     /\ cameraCheck.count > 1
  /\ lastAction = "flipCamera" => cameraCheck.state = "resolved" /\ cameraCheck.count > 1

\* the control is offered, and has been used, on a device with two cameras
C16_Witness == lastAction = "flipCamera" /\ FlipEnabled /\ cameraCheck.count = 2

\* ---- C17
\* C17: a flip switches the facing mode to the other value, requests a stream
\* for the new facing and stops the stream that was bound; and no stream whose
\* request was overtaken by a flip ever has live tracks.
C17_FlipReleasesPrevious ==
  [][/\ lastAction' = "flipCamera" =>
          /\ facingMode' \in FacingModes \ {facingMode}
          /\ \E r \in requests' \ requests : r.mode = facingMode' /\ r.attempt = "ideal"
          /\ srcObject \notin live'
     /\ superseded' \cap live' = {}]_vars

\* ---- C18
\* the handlers whose startCamera call issues the constrained request
AcquiringActions == {"start", "retake", "confirmId", "flipCamera"}

\* C18: an acquisition first requests the preferred facing; an unconstrained
\* request is issued once, in place of a preferred request that failed; the
\* camera error is set exactly when the unconstrained request failed too, and
\* then no stream has live tracks; a delivered stream sets no error.
C18_Acquire ==
  [][/\ \A r \in requests' \ requests :
          IF r.attempt = "ideal"
            THEN lastAction' \in AcquiringActions /\ r.mode = facingMode'
            ELSE /\ lastAction' = "getUserMediaFallback"
                 /\ Cardinality(requests' \ requests) = 1
                 /\ \E q \in requests \ requests' : q.attempt = "ideal" /\ q.id = r.id
     /\ lastAction' \in AcquiringActions =>
          Cardinality({r \in requests' \ requests : r.attempt = "ideal"}) = 1
     /\ (error' = CameraErrorMsg /\ error # CameraErrorMsg) =>
          lastAction' = "getUserMediaFailed"
     /\ lastAction' = "getUserMediaFailed" => error' = CameraErrorMsg /\ live' = {}
     /\ lastAction' = "getUserMediaResolved" => error' = error]_vars

\* ---- C19
\* C19: every entry into capture_id sets the facing mode to environment and
\* requests an environment stream, every entry into capture_selfie sets it to
\* user and requests a user stream, whatever the facing mode was before.
C19_EntrySetsFacing ==
  [][/\ (step' # step /\ step' = "capture_id") =>
          /\ lastAction' \in {"start", "retake"}
          /\ facingMode' = "environment"
          /\ \E r \in requests' \ requests : r.mode = "environment" /\ r.attempt = "ideal"
     /\ (step' # step /\ step' = "capture_selfie") =>
          /\ lastAction' \in {"confirmId", "retake"}
          /\ facingMode' = "user"
          /\ \E r \in requests' \ requests : r.mode = "user" /\ r.attempt = "ideal"]_vars

\* capture_id was re-entered by a retake of an ID still taken after a flip
\* to the front camera (the still is mirrored), and the facing is back again
C19_Witness ==
  /\ lastAction = "retake" /\ step = "capture_id"
  /\ idImage.kind = "frame" /\ idImage.mirrored
  /\ facingMode = "environment"
  /\ \E r \in requests : r.mode = "environment"

\* ---- C20
\* C20: stopCamera stops the bound stream and unbinds it, changes nothing
\* when no stream is bound, and a second stopCamera changes nothing more;
\* the shutter and the flip, which call it, leave exactly that behind.
C20_Release ==
  [][LET once == stopCamera(VideoMounted(step), srcObject, bound, live)
         twice == stopCamera(VideoMounted(step), once.srcObject, once.bound, once.live)
     IN  /\ srcObject # NoStream =>
               /\ VideoMounted(step)
               /\ once.srcObject = NoStream /\ once.bound = NoBound
               /\ once.live = live \ {srcObject}
         /\ srcObject = NoStream =>
               once = [srcObject |-> srcObject, bound |-> bound, live |-> live]
         /\ twice = once
         /\ lastAction' \in {"captureImage", "flipCamera"} =>
               live' = once.live /\ srcObject' = NoStream /\ bound' = NoBound]_vars

\* a still of a bound stream was taken and no stream is live afterwards
C20_Witness == lastAction = "captureImage" /\ idImage.kind = "frame" /\ live = {}

\* ---- C21
\* C21: a still that shows a frame is mirrored exactly when the lens that
\* produced the frame is the front one.
C21_MirrorMatchesLens ==
  \A img \in {idImage, selfieImage} :
    img.kind = "frame" => (img.mirrored <=> img.facing = "user")

\* ---- C23
\* C23: in step result exactly one of the verification outcome and the
\* error description is present.
C23_OutcomeXorError ==
  step = "result" => ((result # NoResult) <=> (error = Null))

\* ---- C24
\* C24: in step welcome the two images, the verification outcome and the
\* error are all absent.
C24_WelcomeIsClean ==
  step = "welcome" =>
    /\ idImage = NoImage
    /\ selfieImage = NoImage
    /\ result = NoResult
    /\ error = Null

\* ---- C26
\* C26: a stream bound to the preview in a capture step is the stream of the
\* most recent acquisition request and was requested for the current facing mode.
C26_BoundIsLatest ==
  (VideoMounted(step) /\ srcObject # NoStream) =>
    /\ srcObject = latest
    /\ bound.mode = facingMode

\* ---- C22
\* C22: a shutter press in capture_id writes the still to the ID image and
\* moves to review_id, a shutter press in capture_selfie writes it to the
\* selfie image and moves to review_selfie; the image of the other role, the
\* outcome and the error are left as they were, and the still replaces
\* whatever the cell held.
C22_ShutterFrame ==
  [][lastAction' = "captureImage" =>
       /\ step \in CaptureSteps
       /\ step = "capture_id" =>
            /\ idImage' = CapturedStill /\ step' = "review_id"
            /\ selfieImage' = selfieImage
       /\ step = "capture_selfie" =>
            /\ selfieImage' = CapturedStill /\ step' = "review_selfie"
            /\ idImage' = idImage
       /\ result' = result /\ error' = error]_vars

\* a selfie was stored next to an ID still that shows a frame
C22_Witness ==
  /\ lastAction = "captureImage" /\ step = "review_selfie"
  /\ idImage.kind = "frame" /\ ImageTruthy(selfieImage)

\* ---- C25
\* C25: every verification call in flight carries the still of the most
\* recent shutter press in capture_id and of the most recent shutter press in
\* capture_selfie since the last cancel or restart.
C25_SubmittedImages ==
  \A c \in calls :
    /\ c.idData = idShot /\ ImageTruthy(idShot)
    /\ c.selfieData = selfieShot /\ ImageTruthy(selfieShot)

\* a call was issued with two stills that differ
C25_Witness ==
  /\ lastAction = "runVerification"
  /\ \E c \in calls : c.idData.kind = "frame" /\ c.idData # c.selfieData

====
